---- MODULE Spec2Model ----
(***************************************************************************)
(* Model of sell_monitor4.py: the Streamlit script is re-run top to bottom *)
(* once per refresh ("cycle").  st.session_state (sell_log and the two     *)
(* trackers) survives the re-runs; everything else is rebuilt each cycle.  *)
(*                                                                         *)
(* Numbers.  Prices are integers counted in mills ($0.001), so that        *)
(* round(x, 2) is a real conversion.  A percentage is an exact rational    *)
(* <<n, d>> in lowest terms with d > 0 (the float rounding error of the    *)
(* source is not modelled).  NaN is the price -1, None is the empty tuple. *)
(* Time is counted in ticks; a day is DayTicks ticks.                      *)
(***************************************************************************)
EXTENDS Integers, Sequences, FiniteSets, TLC

VARIABLES
    sell_log,            \* st.session_state.sell_log
    max_return_tracker,  \* st.session_state.max_return_tracker
    max_price_tracker,   \* st.session_state.max_price_tracker
    target_return, stop_loss, trailing_stop, max_hold_days,  \* sliders
    df_positions,        \* the loaded positions, a sequence of rows
    results,             \* the report rows of the running cycle
    monitoring,          \* the count shown by "Currently monitoring N"
    pc,                  \* "idle" (between runs), "loop" (in the for loop),
                         \* "stopped" (st.stop) or "error" (uncaught exception)
    i,                   \* index of the next row of df_positions
    ticker, buy_price, days_held, fetched,      \* loop locals
    return_pct, trailing_trigger, advice,       \* loop locals
    now,                 \* datetime.now(), in ticks
    cycle,               \* number of script runs started
    evals,               \* number of loop iterations budgeted so far
    quotes,              \* history: what fetch returned for rows 1..i-1
    log_mark,            \* history: Len(sell_log) when the cycle began
    history,             \* history: one record per iteration that was not
                         \* skipped, oldest first (see Observation)
    twin                 \* a second session running the same script on the
                         \* same upload, sliders and clock, with quotes of
                         \* its own: its trackers, last quote and advice

vars == <<sell_log, max_return_tracker, max_price_tracker, target_return,
          stop_loss, trailing_stop, max_hold_days, df_positions, results,
          monitoring, pc, i, ticker, buy_price, days_held, fetched,
          return_pct, trailing_trigger, advice, now, cycle, evals, quotes,
          log_mark, history, twin>>

----------------------------------------------------------------------------
(* Bounds *)
MaxCycles == 3
MaxEvals == 4
MaxPositions == 2

(* Units *)
DayTicks == 2
NaN == 0 - 1
None == <<>>
\* a 'Buy Date' cell that pd.to_datetime cannot parse
BadDate == 0 - 1

(* Advice strings *)
Hold == "Hold"
SellTarget == "Sell (Target Met)"
SellStopLoss == "Sell (Stop Loss)"
SellTrailing == "Sell (Trailing Stop)"
SellBelowMA == "Sell (Below 20MA)"
SellMaxHold == "Sell (Max Hold Period)"
Unbound == "unbound"

----------------------------------------------------------------------------
(* Arithmetic *)
Abs(x) == IF x < 0 THEN 0 - x ELSE x

RECURSIVE GCD(_, _)
GCD(a, b) == IF b = 0 THEN a ELSE GCD(b, a % b)

Rat(n, d) == LET g == GCD(Abs(n), d) IN <<n \div g, d \div g>>

RatLT(a, b) == a[1] * b[2] < b[1] * a[2]

\* Python's max(a, b): b only when b > a
RatMax(a, b) == IF RatLT(a, b) THEN b ELSE a
IntMax(a, b) == IF b > a THEN b ELSE a

\* nearest integer to n/d (d > 0), ties to even, as Python's round
RoundDiv(n, d) ==
    LET q == n \div d
        r == n - q * d
    IN  IF 2 * r < d THEN q
        ELSE IF 2 * r > d THEN q + 1
        ELSE IF q % 2 = 0 THEN q ELSE q + 1

\* round(price, 2): a price in mills rounded to whole cents, in mills
Round2Price(p) == RoundDiv(p, 10) * 10
\* round(pct, 2): a percentage as a count of hundredths of a percent
Round2Pct(r) == RoundDiv(r[1] * 100, r[2])

----------------------------------------------------------------------------
(* The loop body's computations *)

\* the NaN test forgotten: only None is skipped
QuoteUsableNoNaN(f) == Len(f) # 0

\* the load succeeds when pd.to_datetime parses every 'Buy Date'
LoadParses(csv) == \A k \in DOMAIN csv : csv[k].BuyDate # BadDate

\* (current_price - buy_price) / buy_price raises ZeroDivisionError
DivisionRaises(bp) == bp = 0

\* "if not fetched: continue" and "if pd.isna(..) or pd.isna(..): continue"
QuoteUsable(f) == Len(f) # 0 /\ f[1] # NaN /\ f[2] # NaN

\* the operands of the subtraction exchanged
DaysHeldSwapped(t, buy_date) == (buy_date - t) \div DayTicks

\* (datetime.now() - buy_date).days : whole days, rounded towards -infinity
DaysHeld(t, buy_date) == (t - buy_date) \div DayTicks

\* ((current_price - buy_price) / buy_price) * 100
ReturnPct(current_price, bp) == Rat((current_price - bp) * 100, bp)

\* trailing_high * (1 - trailing_stop / 100), in mills, as a rational
TrailingTrigger(current_price, bp, ts) ==
    LET trailing_high == IntMax(current_price, bp)
    IN  Rat(trailing_high * (100 - ts), 100)

\* the tracker overwritten by the latest value
UpdateMaxReturnLastWins(tracker, t, r) == (t :> r) @@ tracker

\* the comparison of the price tracker reversed
UpdateMaxPriceMin(tracker, t, p) ==
    IF t \notin DOMAIN tracker
    THEN (t :> p) @@ tracker
    ELSE [tracker EXCEPT ![t] = IF p < @ THEN p ELSE @]

\* the price entry is seeded and never raised afterwards
UpdateMaxPriceFirstWins(tracker, t, p) ==
    IF t \notin DOMAIN tracker THEN (t :> p) @@ tracker ELSE tracker

\* the entry is seeded and never raised afterwards
UpdateMaxReturnFirstWins(tracker, t, r) ==
    IF t \notin DOMAIN tracker THEN (t :> r) @@ tracker ELSE tracker

\* tracker[ticker] = v if ticker is new, else max(v, tracker[ticker])
UpdateMaxReturn(tracker, t, r) ==
    IF t \notin DOMAIN tracker
    THEN (t :> r) @@ tracker
    ELSE [tracker EXCEPT ![t] = RatMax(r, @)]

UpdateMaxPrice(tracker, t, p) ==
    IF t \notin DOMAIN tracker
    THEN (t :> p) @@ tracker
    ELSE [tracker EXCEPT ![t] = IntMax(p, @)]

\* the dead-zone guard tested after the rules instead of before them
AdviceGuardLast(r, current_price, ma20, trigger, dh, target, stop, hold) ==
    IF r[1] >= target * r[2] THEN SellTarget
    ELSE IF r[1] <= (0 - stop) * r[2] THEN SellStopLoss
    ELSE IF current_price * trigger[2] < trigger[1] /\ r[1] * 10 > r[2]
         THEN SellTrailing
    ELSE IF current_price < ma20 /\ r[1] * 10 > r[2] THEN SellBelowMA
    ELSE IF dh >= hold THEN SellMaxHold
    ELSE Hold

\* the holding period tested before the price rules
AdviceMaxHoldFirst(r, current_price, ma20, trigger, dh, target, stop, hold) ==
    IF Abs(r[1]) * 10 < r[2] THEN Hold
    ELSE IF dh >= hold THEN SellMaxHold
    ELSE IF r[1] >= target * r[2] THEN SellTarget
    ELSE IF r[1] <= (0 - stop) * r[2] THEN SellStopLoss
    ELSE IF current_price * trigger[2] < trigger[1] /\ r[1] * 10 > r[2]
         THEN SellTrailing
    ELSE IF current_price < ma20 /\ r[1] * 10 > r[2] THEN SellBelowMA
    ELSE Hold

\* the two absolute bounds compared strictly
AdviceStrictBounds(r, current_price, ma20, trigger, dh, target, stop, hold) ==
    IF Abs(r[1]) * 10 < r[2] THEN Hold
    ELSE IF r[1] > target * r[2] THEN SellTarget
    ELSE IF r[1] < (0 - stop) * r[2] THEN SellStopLoss
    ELSE IF current_price * trigger[2] < trigger[1] /\ r[1] * 10 > r[2]
         THEN SellTrailing
    ELSE IF current_price < ma20 /\ r[1] * 10 > r[2] THEN SellBelowMA
    ELSE IF dh >= hold THEN SellMaxHold
    ELSE Hold

\* the holding period compared strictly
AdviceHoldStrict(r, current_price, ma20, trigger, dh, target, stop, hold) ==
    IF Abs(r[1]) * 10 < r[2] THEN Hold
    ELSE IF r[1] >= target * r[2] THEN SellTarget
    ELSE IF r[1] <= (0 - stop) * r[2] THEN SellStopLoss
    ELSE IF current_price * trigger[2] < trigger[1] /\ r[1] * 10 > r[2]
         THEN SellTrailing
    ELSE IF current_price < ma20 /\ r[1] * 10 > r[2] THEN SellBelowMA
    ELSE IF dh > hold THEN SellMaxHold
    ELSE Hold

\* the if / elif chain
AdviceOf(r, current_price, ma20, trigger, dh, target, stop, hold) ==
    IF Abs(r[1]) * 10 < r[2] THEN Hold
    ELSE IF r[1] >= target * r[2] THEN SellTarget
    ELSE IF r[1] <= (0 - stop) * r[2] THEN SellStopLoss
    ELSE IF current_price * trigger[2] < trigger[1] /\ r[1] * 10 > r[2]
         THEN SellTrailing
    ELSE IF current_price < ma20 /\ r[1] * 10 > r[2] THEN SellBelowMA
    ELSE IF dh >= hold THEN SellMaxHold
    ELSE Hold

\* only the two absolute bounds recognised as a sell
ContainsSellBoundsOnly(a) == a \in {SellTarget, SellStopLoss}

\* "Sell" in advice
ContainsSell(a) == a \in {SellTarget, SellStopLoss, SellTrailing,
                          SellBelowMA, SellMaxHold}

\* the row's own return and price reported as its high-water marks
ReportRowOwnValues(t, dh, bp, current_price, r, max_r, max_p, ma20, a) ==
    [Ticker |-> t, DaysHeld |-> dh, BuyPrice |-> Round2Price(bp),
     CurrentPrice |-> Round2Price(current_price), Return |-> Round2Pct(r),
     MaxReturn |-> Round2Pct(r), MaxPrice |-> Round2Price(current_price),
     MA20 |-> Round2Price(ma20), Advice |-> a]

\* the advice overridden when the price is trailing_stop percent below the
\* tracked maximum price
ReportRowTrailing(t, dh, bp, current_price, r, max_r, max_p, ma20, a) ==
    [Ticker |-> t, DaysHeld |-> dh, BuyPrice |-> Round2Price(bp),
     CurrentPrice |-> Round2Price(current_price), Return |-> Round2Pct(r),
     MaxReturn |-> Round2Pct(max_r), MaxPrice |-> Round2Price(max_p),
     MA20 |-> Round2Price(ma20),
     Advice |-> IF current_price * 100 < max_p * (100 - trailing_stop)
                THEN SellTrailing ELSE a]

\* results.append({...})
ReportRow(t, dh, bp, current_price, r, max_r, max_p, ma20, a) ==
    [Ticker |-> t, DaysHeld |-> dh, BuyPrice |-> Round2Price(bp),
     CurrentPrice |-> Round2Price(current_price), Return |-> Round2Pct(r),
     MaxReturn |-> Round2Pct(max_r), MaxPrice |-> Round2Price(max_p),
     MA20 |-> Round2Price(ma20), Advice |-> a]

LogEntry(ts, t, a, bp, current_price, r) ==
    [Timestamp |-> ts, Ticker |-> t, Advice |-> a,
     BuyPrice |-> Round2Price(bp),
     CurrentPrice |-> Round2Price(current_price), Return |-> Round2Pct(r)]

\* one entry per ticker: an older entry of the ticker is replaced
AppendAlertDedup(log, ts, t, a, bp, current_price, r) ==
    IF ContainsSell(a)
    THEN Append(SelectSeq(log, LAMBDA e : e.Ticker # t),
                LogEntry(ts, t, a, bp, current_price, r))
    ELSE log

\* sell_log after the "if 'Sell' in advice" statement
AppendAlert(log, ts, t, a, bp, current_price, r) ==
    IF ContainsSell(a)
    THEN Append(log, LogEntry(ts, t, a, bp, current_price, r))
    ELSE log

\* the loaded positions counted instead of the rows
MonitoredCountLoaded(res, positions) == Len(positions)

\* len(results) in "Currently monitoring N positions"
MonitoredCount(res, positions) == Len(res)

----------------------------------------------------------------------------
(* Inputs *)

Position(t, d, p) == [Ticker |-> t, BuyDate |-> d, BuyPrice |-> p]

SeqsUpTo(S, n) == UNION {[1..k -> S] : k \in 0..n}

Threshold(tr, sl, ts, mh) ==
    [target_return |-> tr, stop_loss |-> sl, trailing_stop |-> ts,
     max_hold_days |-> mh]

\* the cycles of Spec: two or three holdings, the default sliders or the
\* tightest ones, a handful of market states
Rows == {Position("AAPL", 0, 10000), Position("AAPL", 2, 20000),
         Position("MSFT", 0, 10000)}
Portfolios == SeqsUpTo(Rows, MaxPositions)
Sliders == {Threshold(20, 10, 5, 3), Threshold(1, 1, 100, 1)}
Quotes == {None, <<NaN, 11000>>, <<10500, NaN>>, <<8900, 9000>>,
           <<10004, 11000>>, <<10500, 11000>>, <<11500, 11000>>,
           <<10800, 11000>>}
StartTimes == {3, 4}

\* the uploads of SpecLoad: the rows above, a row whose buy price is 0 and
\* a row whose buy date does not parse
LoadRows == Rows \cup {Position("MSFT", 0, 0),
                       Position("MSFT", BadDate, 10000)}
LoadPortfolios == SeqsUpTo(LoadRows, MaxPositions)

\* the single evaluations of SpecEval: one holding, sliders over their
\* range, prices around every threshold
EvalRows == {Position("AAPL", d, p) : d \in {0, 2, 6}, p \in {10000, 20000}}
EvalPortfolios == {<<r>> : r \in EvalRows}
EvalSliders == {Threshold(tr, sl, ts, mh) :
                  tr \in {1, 20, 100}, sl \in {1, 10, 100},
                  ts \in {1, 5, 100}, mh \in {1, 2, 365}}
EvalQuotes == {None} \cup
              {<<p, m>> : p \in {NaN, 1, 8900, 9000, 9991, 10004, 10009,
                                 10010, 10100, 10800, 12000, 12100, 40000},
                          m \in {NaN, 9000, 11000, 50000}}

----------------------------------------------------------------------------
(* State machine *)

Init ==
    /\ sell_log = <<>>
    /\ max_return_tracker = <<>>
    /\ max_price_tracker = <<>>
    /\ target_return = 20 /\ stop_loss = 10
    /\ trailing_stop = 5 /\ max_hold_days = 180
    /\ df_positions = <<>>
    /\ results = <<>>
    /\ monitoring = 0
    /\ pc = "idle"
    /\ i = 1
    /\ ticker = Unbound /\ buy_price = 0 /\ days_held = 0
    /\ fetched = None /\ return_pct = <<0, 1>>
    /\ trailing_trigger = <<0, 1>> /\ advice = Unbound
    /\ now \in StartTimes
    /\ cycle = 0 /\ evals = 0
    /\ quotes = <<>> /\ log_mark = 0 /\ history = <<>>
    /\ twin = [max_return_tracker |-> <<>>, max_price_tracker |-> <<>>,
               fetched |-> None, advice |-> Unbound]

\* A run of the script up to the for loop: the sliders are read, the
\* positions are loaded, results = [].  The first run loads the positions;
\* later runs re-read the same upload.  A run starts one tick after the
\* previous one (the refresh interval).
StartCycle(sliders, portfolios, maxCycles) ==
    /\ pc \in {"idle", "error"}
    /\ cycle < maxCycles
    /\ \E th \in sliders :
          /\ target_return' = th.target_return
          /\ stop_loss' = th.stop_loss
          /\ trailing_stop' = th.trailing_stop
          /\ max_hold_days' = th.max_hold_days
    /\ IF cycle = 0
       THEN df_positions' \in portfolios
       ELSE df_positions' = df_positions
    /\ LoadParses(df_positions')
    /\ evals + Len(df_positions') <= MaxEvals
    /\ evals' = evals + Len(df_positions')
    /\ now' = IF cycle = 0 THEN now ELSE now + 1
    /\ cycle' = cycle + 1
    /\ results' = <<>>
    /\ quotes' = <<>>
    /\ log_mark' = Len(sell_log)
    /\ i' = 1
    /\ pc' = "loop"
    /\ UNCHANGED <<sell_log, max_return_tracker, max_price_tracker,
                   monitoring, ticker, buy_price, days_held, fetched,
                   return_pct, trailing_trigger, advice, history, twin>>

\* A run whose upload does not load: the except branch shows the error and
\* st.stop() ends the run before the loop.
LoadError(sliders, portfolios) ==
    /\ pc = "idle"
    /\ cycle = 0
    /\ \E th \in sliders :
          /\ target_return' = th.target_return
          /\ stop_loss' = th.stop_loss
          /\ trailing_stop' = th.trailing_stop
          /\ max_hold_days' = th.max_hold_days
    /\ \E csv \in portfolios : ~LoadParses(csv)
    /\ cycle' = cycle + 1
    /\ pc' = "stopped"
    /\ UNCHANGED <<sell_log, max_return_tracker, max_price_tracker,
                   df_positions, results, monitoring, i, ticker, buy_price,
                   days_held, fetched, return_pct, trailing_trigger, advice,
                   now, evals, quotes, log_mark, history, twin>>

\* what one evaluated row contributed, kept for the record
Observation(c, k, t, r, current_price, dh, hold, a) ==
    [cycle |-> c, row |-> k, ticker |-> t, return_pct |-> r,
     current_price |-> current_price, days_held |-> dh,
     max_hold_days |-> hold, advice |-> a]

\* "continue": nothing but the loop locals changes
SkipRow(q) ==
    UNCHANGED <<sell_log, max_return_tracker, max_price_tracker, results,
                return_pct, trailing_trigger, advice, history>>

\* line 92 raises: the run ends there, nothing after it is executed
RaiseRow(q) ==
    UNCHANGED <<sell_log, max_return_tracker, max_price_tracker, results,
                return_pct, trailing_trigger, advice, history>>

\* lines 92-151 for a usable quote q of row df_positions[i]
ProcessRow(q) ==
    LET row == df_positions[i]
        t == row.Ticker
        bp == row.BuyPrice
        dh == DaysHeld(now, row.BuyDate)
        current_price == q[1]
        ma20 == q[2]
        r == ReturnPct(current_price, bp)
        mrt == UpdateMaxReturn(max_return_tracker, t, r)
        mpt == UpdateMaxPrice(max_price_tracker, t, current_price)
        trig == TrailingTrigger(current_price, bp, trailing_stop)
        a == AdviceOf(r, current_price, ma20, trig, dh,
                      target_return, stop_loss, max_hold_days)
    IN  /\ return_pct' = r
        /\ max_return_tracker' = mrt
        /\ max_price_tracker' = mpt
        /\ trailing_trigger' = trig
        /\ advice' = a
        /\ results' = Append(results,
               ReportRow(t, dh, bp, current_price, r, mrt[t], mpt[t], ma20, a))
        /\ sell_log' = AppendAlert(sell_log, now, t, a, bp, current_price, r)
        /\ history' = Append(history,
                             Observation(cycle, i, t, r, current_price, dh,
                                         max_hold_days, a))

\* one iteration of "for _, row in df_positions.iterrows()"
EvalRow(quoteSet) ==
    /\ pc = "loop"
    /\ i <= Len(df_positions)
    /\ \E q \in quoteSet :
          /\ ticker' = df_positions[i].Ticker
          /\ buy_price' = df_positions[i].BuyPrice
          /\ days_held' = DaysHeld(now, df_positions[i].BuyDate)
          /\ fetched' = q
          /\ quotes' = Append(quotes, q)
          /\ IF ~QuoteUsable(q) THEN SkipRow(q) /\ pc' = pc
             ELSE IF DivisionRaises(df_positions[i].BuyPrice)
                  THEN RaiseRow(q) /\ pc' = "error"
             ELSE ProcessRow(q) /\ pc' = pc
    /\ i' = i + 1
    /\ UNCHANGED <<target_return, stop_loss, trailing_stop, max_hold_days,
                   df_positions, monitoring, now, cycle, evals, log_mark>>

\* the same iteration in the second session, whose fetch returned q2: the
\* session's state tw after lines 84-141 for the row df_positions[i]
TwinRow(tw, q2) ==
    LET row == df_positions[i]
        t == row.Ticker
        bp == row.BuyPrice
        dh == DaysHeld(now, row.BuyDate)
        current_price == q2[1]
        ma20 == q2[2]
        r == ReturnPct(current_price, bp)
        mrt == UpdateMaxReturn(tw.max_return_tracker, t, r)
        mpt == UpdateMaxPrice(tw.max_price_tracker, t, current_price)
        trig == TrailingTrigger(current_price, bp, trailing_stop)
        a == AdviceOf(r, current_price, ma20, trig, dh,
                      target_return, stop_loss, max_hold_days)
        reported == ReportRow(t, dh, bp, current_price, r, mrt[t], mpt[t],
                              ma20, a)
    IN  IF ~QuoteUsable(q2) \/ DivisionRaises(bp)
        THEN [tw EXCEPT !.fetched = q2]
        ELSE [max_return_tracker |-> mrt, max_price_tracker |-> mpt,
              fetched |-> q2, advice |-> reported.Advice]

\* one iteration of the loop in both sessions
EvalRowTwice(quoteSet) ==
    /\ EvalRow(quoteSet)
    /\ \E q2 \in quoteSet : twin' = TwinRow(twin, q2)

\* after the loop: "Currently monitoring N positions", the tables
Display ==
    /\ pc = "loop"
    /\ i > Len(df_positions)
    /\ monitoring' = MonitoredCount(results, df_positions)
    /\ pc' = "idle"
    /\ UNCHANGED <<sell_log, max_return_tracker, max_price_tracker,
                   target_return, stop_loss, trailing_stop, max_hold_days,
                   df_positions, results, i, ticker, buy_price, days_held,
                   fetched, return_pct, trailing_trigger, advice, now, cycle,
                   evals, quotes, log_mark, history, twin>>

RunCycle == StartCycle(Sliders, Portfolios, MaxCycles)
EvalQuote == EvalRow(Quotes) /\ UNCHANGED twin

Next == RunCycle \/ EvalQuote \/ Display

Spec == Init /\ [][Next]_vars

\* one run of the script over an upload that may be malformed
LoadOnce == StartCycle(Sliders, LoadPortfolios, 1)
LoadFails == LoadError(Sliders, LoadPortfolios)

NextLoad == LoadOnce \/ LoadFails \/ EvalQuote \/ Display

SpecLoad == Init /\ [][NextLoad]_vars

\* two sessions side by side: one holding, two runs of the script
TwinPortfolios == {<<r>> : r \in Rows}
RunTwin == StartCycle(Sliders, TwinPortfolios, 2)
EvalTwin == EvalRowTwice(Quotes)

NextTwin == RunTwin \/ EvalTwin \/ Display

SpecTwin == Init /\ [][NextTwin]_vars

\* one run of the script over one holding, inputs over their ranges
RunOnce == StartCycle(EvalSliders, EvalPortfolios, 1)
EvalAnyQuote == EvalRow(EvalQuotes) /\ UNCHANGED twin

NextEval == RunOnce \/ EvalAnyQuote \/ Display

SpecEval == Init /\ [][NextEval]_vars

TypeOK ==
    /\ pc \in {"idle", "loop", "stopped", "error"}
    /\ DOMAIN max_return_tracker = DOMAIN max_price_tracker
    /\ i \in 1..(Len(df_positions) + 1)
    /\ Len(quotes) = i - 1

----------------------------------------------------------------------------
(* Vocabulary of the properties, stated on the state alone *)

\* the quote of the last iteration carried a price and a moving average
Present(f) == f # None /\ f[1] # NaN /\ f[2] # NaN

\* the loop locals are those of row i-1 of the running (or just finished)
\* cycle, and that row was not skipped
Evaluated == i > 1 /\ Present(fetched)

InDeadZone(r) == r[1] * 10 < r[2] /\ r[1] * 10 > 0 - r[2]
AtLeast(r, pct) == r[1] >= pct * r[2]
AtMost(r, pct) == r[1] <= pct * r[2]
IsSellVariant(a) == a # Hold

\* the greatest of a non-empty set of percentages / of prices
GreatestPct(S) == CHOOSE r \in S : \A q \in S : ~RatLT(r, q)
GreatestPrice(S) == CHOOSE p \in S : \A q \in S : q <= p

Seen(t) == {k \in DOMAIN history : history[k].ticker = t}

----------------------------------------------------------------------------
\* C1: in every step, every ticker that has a tracker entry keeps it, and
\* neither its maxReturnPct nor its maxPrice decreases.
C1_TrackersNeverDecrease ==
    [][ /\ \A t \in DOMAIN max_return_tracker :
              /\ t \in DOMAIN max_return_tracker'
              /\ ~RatLT(max_return_tracker'[t], max_return_tracker[t])
        /\ \A t \in DOMAIN max_price_tracker :
              /\ t \in DOMAIN max_price_tracker'
              /\ max_price_tracker'[t] >= max_price_tracker[t] ]_vars

\* a later cycle observed a lower return and a lower price than the marks,
\* after a skipped quote of the same cycle
C1_Witness ==
    /\ Evaluated /\ cycle >= 2
    /\ RatLT(return_pct, max_return_tracker[ticker])
    /\ fetched[1] < max_price_tracker[ticker]
    /\ \E k \in DOMAIN quotes : ~Present(quotes[k])

\* C2: in every step the alert log of before is a prefix of the log of
\* after: no entry is changed, removed or moved, the length never drops.
C2_LogAppendOnly ==
    [][ /\ Len(sell_log') >= Len(sell_log)
        /\ SubSeq(sell_log', 1, Len(sell_log)) = sell_log ]_vars

\* a second cycle appended to a log that already held an entry of the ticker
C2_Witness ==
    /\ cycle >= 2 /\ log_mark >= 1 /\ Len(sell_log) > log_mark
    /\ sell_log[Len(sell_log)].Ticker = sell_log[1].Ticker

\* C3: an evaluated position whose returnPct is strictly between -0.1 and
\* 0.1 is advised Hold, whatever the thresholds, the moving average and
\* daysHeld.
C3_DeadZoneHolds ==
    (Evaluated /\ InDeadZone(return_pct)) => advice = Hold

\* a non-zero return in the dead zone, below the moving average, held
\* longer than the maximum holding period: Hold
C3_Witness ==
    /\ Evaluated /\ InDeadZone(return_pct) /\ return_pct[1] > 0
    /\ days_held >= max_hold_days
    /\ fetched[1] < fetched[2]
    /\ advice = Hold

\* C4: an iteration whose quote is None or carries a NaN leaves the report
\* rows, the alert log and both trackers as they were; an iteration with a
\* usable quote appends one report row for its ticker and leaves the
\* ticker's marks at least at the observed return and price.
C4_SkipIsAtomic ==
    [][ (i' = i + 1) =>
          IF Present(fetched')
          THEN /\ Len(results') = Len(results) + 1
               /\ results'[Len(results')].Ticker = df_positions[i].Ticker
               /\ df_positions[i].Ticker \in DOMAIN max_return_tracker'
               /\ df_positions[i].Ticker \in DOMAIN max_price_tracker'
               /\ ~RatLT(max_return_tracker'[df_positions[i].Ticker],
                         ReturnPct(fetched'[1], df_positions[i].BuyPrice))
               /\ max_price_tracker'[df_positions[i].Ticker] >= fetched'[1]
          ELSE /\ results' = results
               /\ sell_log' = sell_log
               /\ max_return_tracker' = max_return_tracker
               /\ max_price_tracker' = max_price_tracker ]_vars

\* a NaN quote for a ticker that has marks from an earlier cycle, after a
\* row of the same cycle that was reported
C4_Witness ==
    /\ i > 1 /\ fetched # None /\ ~Present(fetched)
    /\ cycle >= 2
    /\ ticker \in DOMAIN max_return_tracker
    /\ Len(results) = 1 /\ i = 3

\* C5: the entries appended during the running cycle are, in order, the
\* cycle's report rows whose advice is a Sell variant, with the row's ticker
\* and advice; over all cycles the log has one entry per evaluation that was
\* advised a Sell variant, in order, with no deduplication.
C5_LogMatchesSellRows ==
    LET new == SubSeq(sell_log, log_mark + 1, Len(sell_log))
        sells == SelectSeq(results, LAMBDA r : IsSellVariant(r.Advice))
        allSells == SelectSeq(history, LAMBDA h : IsSellVariant(h.advice))
    IN  /\ Len(new) = Len(sells)
        /\ \A k \in DOMAIN new :
              /\ new[k].Ticker = sells[k].Ticker
              /\ new[k].Advice = sells[k].Advice
        /\ Len(sell_log) = Len(allSells)
        /\ \A k \in DOMAIN sell_log :
              /\ sell_log[k].Ticker = allSells[k].ticker
              /\ sell_log[k].Advice = allSells[k].advice

\* a ticker advised a time-based sell in two consecutive cycles has two
\* entries, and the running cycle also has a Hold row that logged nothing
C5_Witness ==
    /\ pc = "idle" /\ cycle = 2
    /\ Len(sell_log) = 2
    /\ sell_log[1].Ticker = sell_log[2].Ticker
    /\ sell_log[2].Timestamp = sell_log[1].Timestamp + 1
    /\ sell_log[2].Advice \in {SellMaxHold, SellBelowMA}
    /\ Len(results) = 2
    /\ results[1].Advice = Hold

\* C6: an evaluation with a present quote and buyPrice > 0 produces exactly
\* one of the six outcomes, the one of the first condition that holds in the
\* order
\* dead-zone, target, stop loss, trailing stop, below moving average,
\* maximum holding period, and Hold when none holds.
C6_FirstMatchWins ==
    (Evaluated /\ buy_price > 0) =>
      LET r == return_pct
          price == fetched[1]
          high == IF price > buy_price THEN price ELSE buy_price
          dz == InDeadZone(r)
          tgt == AtLeast(r, target_return)
          sl == AtMost(r, 0 - stop_loss)
          gain == r[1] * 10 > r[2]
          trail == price * 100 < high * (100 - trailing_stop) /\ gain
          below == price < fetched[2] /\ gain
          late == days_held >= max_hold_days
      IN  /\ advice \in {Hold, SellTarget, SellStopLoss, SellTrailing,
                         SellBelowMA, SellMaxHold}
          /\ dz => advice = Hold
          /\ (~dz /\ tgt) => advice = SellTarget
          /\ (~dz /\ ~tgt /\ sl) => advice = SellStopLoss
          /\ (~dz /\ ~tgt /\ ~sl /\ trail) => advice = SellTrailing
          /\ (~dz /\ ~tgt /\ ~sl /\ ~trail /\ below) => advice = SellBelowMA
          /\ (~dz /\ ~tgt /\ ~sl /\ ~trail /\ ~below /\ late)
                => advice = SellMaxHold
          /\ (~dz /\ ~tgt /\ ~sl /\ ~trail /\ ~below /\ ~late)
                => advice = Hold

\* the target, the moving-average and the holding-period conditions hold
\* together and the first of them decides
C6_Witness ==
    /\ Evaluated
    /\ AtLeast(return_pct, target_return)
    /\ fetched[1] < fetched[2]
    /\ days_held >= max_hold_days
    /\ advice = SellTarget

\* C7: with targetReturnPct >= 1 and stopLossPct >= 1, returnPct >=
\* targetReturnPct gives Sell (Target Met) and returnPct <= -stopLossPct
\* gives Sell (Stop Loss), whatever the moving average, the trailing stop
\* and daysHeld; the two conditions never hold together.
C7_BoundsDecide ==
    (Evaluated /\ target_return >= 1 /\ stop_loss >= 1) =>
       /\ AtLeast(return_pct, target_return) => advice = SellTarget
       /\ AtMost(return_pct, 0 - stop_loss) => advice = SellStopLoss
       /\ ~(AtLeast(return_pct, target_return)
             /\ AtMost(return_pct, 0 - stop_loss))

\* a loss of exactly stopLossPct on a position held past the maximum
\* holding period, below its moving average: Stop Loss
C7_Witness ==
    /\ Evaluated
    /\ return_pct = <<0 - stop_loss, 1>>
    /\ days_held >= max_hold_days
    /\ fetched[1] < fetched[2]
    /\ advice = SellStopLoss

\* C8: the trackers have an entry exactly for the tickers evaluated so far,
\* holding the greatest returnPct and the greatest currentPrice among the
\* ticker's evaluations that were not skipped.
C8_TrackerIsMaximum ==
    /\ DOMAIN max_return_tracker = {history[k].ticker : k \in DOMAIN history}
    /\ DOMAIN max_price_tracker = {history[k].ticker : k \in DOMAIN history}
    /\ \A t \in DOMAIN max_return_tracker :
          /\ max_return_tracker[t] =
                GreatestPct({history[k].return_pct : k \in Seen(t)})
          /\ max_price_tracker[t] =
                GreatestPrice({history[k].current_price : k \in Seen(t)})

\* returns 5, 15, 8 of one ticker over three cycles leave 15
C8_Witness ==
    /\ Len(history) = 3
    /\ \A k \in 1..3 : history[k].ticker = "AAPL" /\ history[k].cycle = k
    /\ history[1].return_pct = <<5, 1>>
    /\ history[2].return_pct = <<15, 1>>
    /\ history[3].return_pct = <<8, 1>>
    /\ max_return_tracker["AAPL"] = <<15, 1>>
    /\ max_price_tracker["AAPL"] = 11500

\* C9: the report rows of the running cycle are the rows of the positions
\* processed so far whose quote was present, one each, in input order; once
\* the cycle is displayed the reported count is the number of rows.
C9_RowsAreKeptPositions ==
    LET idx == [j \in 1..(i - 1) |-> j]
        kept == SelectSeq(idx, LAMBDA j : Present(quotes[j]))
    IN  /\ Len(results) = Len(kept)
        /\ \A k \in DOMAIN results :
              /\ results[k].Ticker = df_positions[kept[k]].Ticker
              /\ results[k].BuyPrice = df_positions[kept[k]].BuyPrice
        /\ (pc = "idle" /\ cycle > 0) => monitoring = Len(results)

\* of two positions with different tickers the first was skipped: one row,
\* the second position's, and a count of 1
C9_Witness ==
    /\ pc = "idle" /\ Len(df_positions) = 2
    /\ df_positions[1].Ticker # df_positions[2].Ticker
    /\ ~Present(quotes[1]) /\ Present(quotes[2])
    /\ Len(results) = 1 /\ results[1].Ticker = df_positions[2].Ticker
    /\ monitoring = 1

\* C10 as stated: every report row has daysHeld >= 0.
C10_DaysHeldNonNegative ==
    \A k \in DOMAIN results : results[k].DaysHeld >= 0

\* C10 amended: a report row has daysHeld >= 0 exactly when the position's
\* buy date is not later than the evaluation time; a buy date in the
\* future gives a negative daysHeld.  (SpecEval loads one position.)
C10_DaysHeldSign ==
    \A k \in DOMAIN results :
       /\ df_positions[k].BuyDate <= now => results[k].DaysHeld >= 0
       /\ df_positions[k].BuyDate > now => results[k].DaysHeld < 0

\* a position bought half a day ago is reported with daysHeld = 0
C10_Witness ==
    /\ Len(results) = 1
    /\ df_positions[1].BuyDate < now
    /\ now - df_positions[1].BuyDate < DayTicks
    /\ results[1].DaysHeld = 0

\* C11: a load with a row whose buy date or buy price cannot be used
\* writes nothing: no tracker entry and no alert log entry comes from it.
\* (SpecLoad runs the script once, from the empty session state.)
C11_MalformedLoadWritesNothing ==
    (\/ pc = "stopped"
     \/ \E k \in DOMAIN df_positions : df_positions[k].BuyPrice <= 0)
    => /\ max_return_tracker = <<>>
       /\ max_price_tracker = <<>>
       /\ sell_log = <<>>

\* the prices, buy prices and sliders over which C12 looks for a
\* trailing stop: every half dollar up to $40, every trailing percentage
TrailingPrices == {k * 500 : k \in 1..80}
TrailingBuyPrices == {10000, 20000}

\* C12: at the evaluation time of the state, some position (buyPrice > 0,
\* bought on day 0 or day 1), present quote and sliders in their ranges are
\* advised Sell (Trailing Stop).
C12_TrailingStopReachable ==
    \E bp \in TrailingBuyPrices, p \in TrailingPrices, ts \in 1..100 :
       \E tr \in {1, 20, 100}, sl \in {1, 10, 100}, m \in {1, 50000},
          d \in {0, 2}, mh \in {1, 365} :
          AdviceOf(ReturnPct(p, bp), p, m, TrailingTrigger(p, bp, ts),
                   DaysHeld(now, d), tr, sl, mh) = SellTrailing

\* what the code does instead: no evaluation is advised Sell (Trailing
\* Stop), because returnPct > 0.1 makes the price its own trailing high
C12_TrailingStopNeverAdvised ==
    Evaluated => advice # SellTrailing

\* both trackers after the observations obs are applied, in the order of
\* the sequence, to the trackers mrt and mpt
RECURSIVE ApplyAll(_, _, _)
ApplyAll(obs, mrt, mpt) ==
    IF obs = <<>> THEN <<mrt, mpt>>
    ELSE ApplyAll(Tail(obs),
                  UpdateMaxReturn(mrt, Head(obs).ticker, Head(obs).return_pct),
                  UpdateMaxPrice(mpt, Head(obs).ticker,
                                 Head(obs).current_price))

\* C13: applying the observations made so far in any other order, from
\* empty trackers, gives the trackers the run has.
C13_OrderIndependent ==
    \A f \in Permutations(DOMAIN history) :
       ApplyAll([k \in DOMAIN history |-> history[f[k]]], <<>>, <<>>)
          = <<max_return_tracker, max_price_tracker>>

\* three observations of one ticker, two of them in one cycle, the greatest
\* return in the middle
C13_Witness ==
    /\ Len(history) = 3
    /\ \A k \in 1..3 : history[k].ticker = history[1].ticker
    /\ history[1].cycle = history[2].cycle
    /\ history[3].cycle > history[2].cycle
    /\ RatLT(history[1].return_pct, history[2].return_pct)
    /\ RatLT(history[3].return_pct, history[2].return_pct)
    /\ history[3].current_price > history[2].current_price

\* C14: the trackers have as many entries as there are distinct tickers
\* among the evaluations so far (positions that share a ticker share the
\* entry), and in a cycle a later row reports a maxReturnPct that is at
\* least the return of every earlier row with its ticker.
C14_KeyedByTicker ==
    LET tickers == {history[k].ticker : k \in DOMAIN history}
    IN  /\ Cardinality(DOMAIN max_return_tracker) = Cardinality(tickers)
        /\ Cardinality(DOMAIN max_price_tracker) = Cardinality(tickers)
        /\ \A j, k \in DOMAIN results :
              (j < k /\ results[j].Ticker = results[k].Ticker)
                 => results[k].MaxReturn >= results[j].Return

\* two positions of one ticker bought at different prices: one entry, and
\* the second row, whose own return is lower, reports the first row's
C14_Witness ==
    /\ Len(results) = 2
    /\ results[1].Ticker = results[2].Ticker
    /\ results[1].BuyPrice # results[2].BuyPrice
    /\ results[2].Return < results[1].Return
    /\ results[2].MaxReturn = results[1].Return
    /\ Cardinality(DOMAIN max_return_tracker) = 1

\* C15: two sessions that evaluate the same position with the same quote,
\* sliders and clock report the same advice, whatever quotes, and so
\* whatever high-water marks, each of them had before.
C15_AdviceIgnoresHistory ==
    (Evaluated /\ twin.fetched = fetched)
       => /\ results[Len(results)].Advice = twin.advice
          /\ advice = twin.advice

\* in the second cycle both sessions get the same quote; their marks for
\* the ticker differ, their advice does not
C15_Witness ==
    /\ Evaluated /\ cycle = 2 /\ twin.fetched = fetched
    /\ ticker \in DOMAIN twin.max_price_tracker
    /\ twin.max_price_tracker[ticker] # max_price_tracker[ticker]
    /\ twin.max_return_tracker[ticker] # max_return_tracker[ticker]
    /\ fetched[1] < max_price_tracker[ticker]
    /\ results[Len(results)].Advice = twin.advice

\* C16: every report row shows marks that are at least its own return and
\* price, and the marks of the row just evaluated are the ticker's tracker
\* entries after the update, which before rounding are at least the
\* observed return and price.
C16_MarksIncludeRow ==
    /\ \A k \in DOMAIN results :
          /\ results[k].MaxReturn >= results[k].Return
          /\ results[k].MaxPrice >= results[k].CurrentPrice
    /\ Evaluated =>
          /\ ~RatLT(max_return_tracker[ticker], return_pct)
          /\ max_price_tracker[ticker] >= fetched[1]
          /\ results[Len(results)].MaxReturn
                = Round2Pct(max_return_tracker[ticker])
          /\ results[Len(results)].MaxPrice
                = Round2Price(max_price_tracker[ticker])

\* a second cycle whose quote is above the first row's mark and a later
\* row of the ticker below it: the first row reports its own values, the
\* second the first row's
C16_Witness ==
    /\ Evaluated /\ cycle >= 2 /\ Len(results) = 2
    /\ results[1].Ticker = results[2].Ticker
    /\ results[1].MaxPrice = results[1].CurrentPrice
    /\ results[1].MaxPrice > Round2Price(history[1].current_price)
    /\ results[2].MaxPrice > results[2].CurrentPrice
    /\ results[2].MaxReturn > results[2].Return

Overdue(h) == h.days_held >= h.max_hold_days

\* C17 as stated: once an evaluation found a position overdue, every
\* evaluation of it from then on whose return is outside the dead-zone is
\* advised a Sell variant.
C17_OnceOverdueAlwaysSell ==
    \A j, k \in DOMAIN history :
       (/\ j <= k /\ history[j].row = history[k].row
        /\ Overdue(history[j])
        /\ ~InDeadZone(history[k].return_pct))
       => IsSellVariant(history[k].advice)

\* C17 amended: an evaluation that finds the position overdue against the
\* maxHoldDays of its own cycle, with a return outside the dead-zone, is
\* advised a Sell variant and appends an alert log entry; so the advice
\* stays a Sell variant in later cycles as long as maxHoldDays is not
\* raised, and an overdue position is advised Hold only in the dead-zone.
C17_OverdueSellsUnlessRaised ==
    /\ \A k \in DOMAIN history :
          (Overdue(history[k]) /\ ~InDeadZone(history[k].return_pct))
             => IsSellVariant(history[k].advice)
    /\ \A j, k \in DOMAIN history :
          (/\ j <= k /\ history[j].row = history[k].row
           /\ Overdue(history[j])
           /\ history[k].max_hold_days <= history[j].max_hold_days
           /\ ~InDeadZone(history[k].return_pct))
          => IsSellVariant(history[k].advice)
    /\ (Evaluated /\ days_held >= max_hold_days /\ ~InDeadZone(return_pct))
          => /\ IsSellVariant(advice)
             /\ Len(sell_log) > log_mark
             /\ sell_log[Len(sell_log)].Ticker = ticker
             /\ sell_log[Len(sell_log)].Advice = advice
    /\ (Evaluated /\ days_held >= max_hold_days /\ advice = Hold)
          => InDeadZone(return_pct)

\* a position found overdue in an earlier cycle is overdue again, matches
\* no price rule and is logged as Sell (Max Hold Period)
C17_Witness ==
    /\ Evaluated /\ Len(history) >= 2
    /\ LET k == Len(history)
       IN  /\ \E j \in 1..(k - 1) :
                 /\ history[j].row = history[k].row
                 /\ history[j].cycle < history[k].cycle
                 /\ Overdue(history[j])
           /\ Overdue(history[k])
           /\ history[k].advice = SellMaxHold
    /\ sell_log[Len(sell_log)].Advice = SellMaxHold
    /\ sell_log[Len(sell_log)].Ticker = ticker

====
